---- MODULE Spec2Model ----
(***************************************************************************)
(* Model of cv_generator.py: the CVData record held by a CVGenerator and   *)
(* CVGenerator.customize_for_job with its helpers, CVGenerator.generate_pdf *)
(* as far as the story it builds, and the CVManager that loads and saves   *)
(* the CVData.                                                             *)
(*                                                                         *)
(* Python values are modelled as follows.                                  *)
(*  - A str that the code lower-cases or searches (job_type, a keyword, a  *)
(*    project's name/description/technology, a course) is a sequence of    *)
(*    one-character strings, so that str.lower and the `in` operator are   *)
(*    computed and not assumed.  A str that the code only copies (summary, *)
(*    responsibilities, skill names, ...) is a TLA+ string.                *)
(*  - A Project is an object with identity: `heap` maps an object id to    *)
(*    the dataclass fields plus `attrs`, the attributes added to the       *)
(*    instance at run time (relevance_score).  A list of projects is a     *)
(*    sequence of ids, so that two lists can share the same objects.       *)
(*  - A dict is a sequence of [key, value] entries with distinct keys, in  *)
(*    insertion order.                                                     *)
(***************************************************************************)
EXTENDS Integers, Sequences, FiniteSets, TLC

VARIABLES cv_data, heap, thr, file, mgr

vars == <<cv_data, heap, thr, file, mgr>>

(***************************************************************************)
(* Bounds of the model.                                                    *)
(***************************************************************************)
MaxProjects == 2

MaxKeywords == 2

MaxCourses == 2

(***************************************************************************)
(* str                                                                     *)
(***************************************************************************)
UpperLetters ==
    <<"A","B","C","D","E","F","G","H","I","J","K","L","M",
      "N","O","P","Q","R","S","T","U","V","W","X","Y","Z">>

LowerLetters ==
    <<"a","b","c","d","e","f","g","h","i","j","k","l","m",
      "n","o","p","q","r","s","t","u","v","w","x","y","z">>

\* The lower-case form of every cased character
LowerOf ==
    [c \in {UpperLetters[n] : n \in DOMAIN UpperLetters} |->
        LowerLetters[CHOOSE n \in DOMAIN UpperLetters : UpperLetters[n] = c]]

LowerChar(c) == IF c \in DOMAIN LowerOf THEN LowerOf[c] ELSE c

\* str.lower()
lower(s) == [n \in 1..Len(s) |-> LowerChar(s[n])]

\* The mutant of str_in: the operands of `in` swapped.
str_in_swapped(sub, s) ==
    \E off \in 0..(Len(sub) - Len(s)) : SubSeq(sub, off + 1, off + Len(s)) = s

\* sub in s, for two str
str_in(sub, s) ==
    \E off \in 0..(Len(s) - Len(sub)) : SubSeq(s, off + 1, off + Len(sub)) = sub

RECURSIVE join(_, _)
\* sep.join(items)
join(sep, items) ==
    IF items = <<>> THEN <<>>
    ELSE IF Len(items) = 1 THEN items[1]
    ELSE items[1] \o sep \o join(sep, Tail(items))

\* x in lst, for a list
list_in(x, lst) == \E n \in DOMAIN lst : lst[n] = x

(***************************************************************************)
(* The literals of _customize_summary, _prioritize_experience and          *)
(* _prioritize_skills.                                                     *)
(***************************************************************************)
data_analyst == <<"d","a","t","a"," ","a","n","a","l","y","s","t">>

data_scientist == <<"d","a","t","a"," ","s","c","i","e","n","t","i","s","t">>

analytics == <<"a","n","a","l","y","t","i","c","s">>

python_developer ==
    <<"p","y","t","h","o","n"," ","d","e","v","e","l","o","p","e","r">>

software_developer ==
    <<"s","o","f","t","w","a","r","e"," ","d","e","v","e","l","o","p","e","r">>

backend_developer ==
    <<"b","a","c","k","e","n","d"," ","d","e","v","e","l","o","p","e","r">>

business_analyst ==
    <<"b","u","s","i","n","e","s","s"," ","a","n","a","l","y","s","t">>

business_intelligence ==
    <<"b","u","s","i","n","e","s","s"," ",
      "i","n","t","e","l","l","i","g","e","n","c","e">>

DataAnalystSummary ==
    "Data Analyst with strong expertise in Python, SQL, and Power BI, passionate about transforming data into actionable insights. Experienced in automating data workflows and delivering business-focused analytics solutions."

PythonDeveloperSummary ==
    "Python Developer with experience in Django, APIs, and data processing. Skilled in building scalable applications and automating complex workflows using modern Python frameworks."

BusinessAnalystSummary ==
    "Business Analyst with strong technical background in data analysis, process automation, and stakeholder collaboration. Experienced in translating business requirements into technical solutions."

DataAnalystResponsibilities ==
    <<"Automated data flows by integrating CRM systems with reporting tools via APIs, reducing manual processing time by 70%",
      "Developed end-to-end data pipelines from extraction to visualization using Python, SQL, and Power BI",
      "Collaborated with stakeholders to define KPIs and delivered actionable business insights through custom dashboards",
      "Performed data analysis and visualization to support strategic decision-making processes">>

PythonDeveloperResponsibilities ==
    <<"Developed Python applications for data processing and automation using Django and APIs",
      "Implemented web scraping solutions and data extraction tools using BeautifulSoup and Pandas",
      "Built and maintained automated workflows integrating multiple systems and databases",
      "Collaborated with technical teams to deliver scalable software solutions">>

DataAnalystPriority ==
    <<"Data Analysis", "Programming", "Databases", "Visualization", "Tools", "Other">>

PythonDeveloperPriority ==
    <<"Programming", "Databases", "Tools", "Data Analysis", "Visualization", "Other">>

(***************************************************************************)
(* Objects and dicts                                                       *)
(***************************************************************************)
NoAttrs == <<>>

\* hasattr(project, 'relevance_score')
has_score(h, id) == "relevance_score" \in DOMAIN h[id].attrs

\* project.relevance_score = v
set_score(h, id, v) == [h EXCEPT ![id].attrs = ("relevance_score" :> v)]

\* delattr(project, 'relevance_score')
del_score(h, id) == [h EXCEPT ![id].attrs = NoAttrs]

\* key in d
dict_has(d, key) == \E n \in DOMAIN d : d[n].key = key

\* d[key]
dict_get(d, key) == d[CHOOSE n \in DOMAIN d : d[n].key = key].value

\* d[key] = value: a new key goes last, an old key keeps its place
dict_set(d, key, value) ==
    IF dict_has(d, key)
    THEN [n \in DOMAIN d |->
            IF d[n].key = key THEN [key |-> key, value |-> value] ELSE d[n]]
    ELSE Append(d, [key |-> key, value |-> value])

\* list(d.keys())
dict_keys(d) == [n \in DOMAIN d |-> d[n].key]

(***************************************************************************)
(* list.sort(key=..., reverse=True): stable, highest key first.  `keys[n]` *)
(* is the key computed for items[n].                                       *)
(***************************************************************************)
RECURSIVE sort_pairs_ascending_reversed(_)
\* The mutant of sort_pairs: sorted lowest first (stable) and then reversed,
\* which turns the order of equal keys around.
sort_pairs_ascending_reversed(pairs) ==
    IF pairs = <<>> THEN <<>>
    ELSE LET rest == sort_pairs_ascending_reversed(Tail(pairs))
             e == Head(pairs)
             before == Cardinality({n \in DOMAIN rest : rest[n].key >= e.key})
         IN SubSeq(rest, 1, before) \o <<e>> \o SubSeq(rest, before + 1, Len(rest))

RECURSIVE sort_pairs_lowest_first(_)
\* The mutant of sort_pairs: reverse=True left out.
sort_pairs_lowest_first(pairs) ==
    IF pairs = <<>> THEN <<>>
    ELSE LET rest == sort_pairs_lowest_first(SubSeq(pairs, 1, Len(pairs) - 1))
             e == pairs[Len(pairs)]
             before == Cardinality({n \in DOMAIN rest : rest[n].key <= e.key})
         IN SubSeq(rest, 1, before) \o <<e>> \o SubSeq(rest, before + 1, Len(rest))

RECURSIVE sort_pairs(_)
\* Insertion of each pair, in list order, behind every pair whose key is not
\* lower: the pairs come out highest key first, equal keys in list order.
sort_pairs(pairs) ==
    IF pairs = <<>> THEN <<>>
    ELSE LET rest == sort_pairs(SubSeq(pairs, 1, Len(pairs) - 1))
             e == pairs[Len(pairs)]
             before == Cardinality({n \in DOMAIN rest : rest[n].key >= e.key})
         IN SubSeq(rest, 1, before) \o <<e>> \o SubSeq(rest, before + 1, Len(rest))

list_sort_reverse(items, keys) ==
    LET sorted == sort_pairs([n \in DOMAIN items |-> [item |-> items[n], key |-> keys[n]]])
    IN [n \in DOMAIN sorted |-> sorted[n].item]

(***************************************************************************)
(* CVGenerator._customize_summary                                          *)
(***************************************************************************)
\* The mutant of _customize_summary: job_type compared without lower().
_customize_summary_case_sensitive(cv, job_keywords, job_type) ==
    IF list_in(job_type, <<data_analyst, data_scientist, analytics>>)
    THEN DataAnalystSummary
    ELSE IF list_in(job_type, <<python_developer, software_developer, backend_developer>>)
    THEN PythonDeveloperSummary
    ELSE IF list_in(job_type, <<business_analyst, business_intelligence>>)
    THEN BusinessAnalystSummary
    ELSE cv.summary

_customize_summary(cv, job_keywords, job_type) ==
    LET base_summary == cv.summary
    IN IF list_in(lower(job_type), <<data_analyst, data_scientist, analytics>>)
       THEN DataAnalystSummary
       ELSE IF list_in(lower(job_type),
                       <<python_developer, software_developer, backend_developer>>)
       THEN PythonDeveloperSummary
       ELSE IF list_in(lower(job_type), <<business_analyst, business_intelligence>>)
       THEN BusinessAnalystSummary
       ELSE base_summary

(***************************************************************************)
(* CVGenerator._prioritize_experience                                      *)
(***************************************************************************)
_prioritize_experience(cv, job_keywords, job_type) ==
    [n \in DOMAIN cv.work_experience |->
        LET exp == cv.work_experience[n]
            responsibilities ==
                IF list_in(lower(job_type), <<data_analyst, data_scientist, analytics>>)
                THEN DataAnalystResponsibilities
                ELSE IF list_in(lower(job_type), <<python_developer, software_developer>>)
                THEN PythonDeveloperResponsibilities
                ELSE exp.responsibilities
        IN [title |-> exp.title,
            company |-> exp.company,
            period |-> exp.period,
            responsibilities |-> responsibilities,
            technologies |-> exp.technologies]]

(***************************************************************************)
(* CVGenerator._prioritize_projects                                        *)
(***************************************************************************)
\* The mutant of project_text: the achievements are part of the text.
project_text_with_achievements(project) ==
    project.name \o <<" ">> \o project.description \o <<" ">>
        \o join(<<" ">>, project.technologies) \o <<" ">>
        \o join(<<" ">>, project.achievements)

\* f"{project.name} {project.description} {' '.join(project.technologies)}"
project_text(project) ==
    project.name \o <<" ">> \o project.description \o <<" ">>
        \o join(<<" ">>, project.technologies)

\* The mutant of keyword_matches: the text is not lower-cased.
keyword_matches_text_as_is(keyword, text) == str_in(lower(keyword), text)

\* keyword.lower() in text.lower()
keyword_matches(keyword, text) == str_in(lower(keyword), lower(text))

RECURSIVE score_keywords(_, _, _, _)
\* for keyword in job_keywords: if ...: project.relevance_score += 1
\* `raised` is set when the attribute to increment is not there.
score_keywords(st, id, text, job_keywords) ==
    IF job_keywords = <<>> \/ st.raised THEN st
    ELSE IF keyword_matches(Head(job_keywords), text)
    THEN IF has_score(st.heap, id)
         THEN score_keywords(
                [st EXCEPT !.heap = set_score(@, id, @[id].attrs.relevance_score + 1)],
                id, text, Tail(job_keywords))
         ELSE [st EXCEPT !.raised = TRUE]
    ELSE score_keywords(st, id, text, Tail(job_keywords))

RECURSIVE score_projects(_, _, _)
\* for project in projects: project.relevance_score = 0; ...
score_projects(st, projects, job_keywords) ==
    IF projects = <<>> \/ st.raised THEN st
    ELSE LET id == Head(projects)
             zeroed == [st EXCEPT !.heap = set_score(@, id, 0)]
         IN score_projects(
                score_keywords(zeroed, id, project_text(zeroed.heap[id]), job_keywords),
                Tail(projects), job_keywords)

\* lambda x: getattr(x, 'relevance_score', 0)
sort_key(h, id) == IF has_score(h, id) THEN h[id].attrs.relevance_score ELSE 0

\* The mutant of remove_scores: the attribute is left on the projects.
remove_scores_skipped(h, projects) == h

\* The mutant of remove_scores: the loop ends after its first project.
remove_scores_first_only(h, projects) ==
    IF projects = <<>> THEN h
    ELSE IF has_score(h, Head(projects)) THEN del_score(h, Head(projects)) ELSE h

RECURSIVE remove_scores(_, _)
\* for project in projects: if hasattr(...): delattr(...)
remove_scores(h, projects) ==
    IF projects = <<>> THEN h
    ELSE remove_scores(
            IF has_score(h, Head(projects)) THEN del_score(h, Head(projects)) ELSE h,
            Tail(projects))

\* The mutant of _prioritize_projects: no copy is taken, and the list of
\* self.cv_data is sorted lowest score first and then reversed.
_prioritize_projects_in_place(cv, h, job_keywords, job_type) ==
    LET projects == cv.projects
        scored == score_projects([heap |-> h, raised |-> FALSE], projects, job_keywords)
        keys == [n \in DOMAIN projects |-> sort_key(scored.heap, projects[n])]
        pairs == sort_pairs_ascending_reversed(
                    [n \in DOMAIN projects |-> [item |-> projects[n], key |-> keys[n]]])
        sorted == [n \in DOMAIN pairs |-> pairs[n].item]
    IN IF scored.raised
       THEN [ret |-> <<>>, source |-> cv.projects, heap |-> scored.heap,
             keys |-> <<>>, raised |-> TRUE]
       ELSE [ret |-> sorted, source |-> sorted,
             heap |-> remove_scores(scored.heap, sorted),
             keys |-> keys, raised |-> FALSE]

\* The whole method, run without interruption.  `ret` is the list returned,
\* `source` the list self.cv_data.projects afterwards (the method works on a
\* copy of it), `heap` the objects afterwards, `keys` the sort keys in the
\* order of the copied list, `raised` whether an AttributeError ended it.
_prioritize_projects(cv, h, job_keywords, job_type) ==
    LET projects == cv.projects
        scored == score_projects([heap |-> h, raised |-> FALSE], projects, job_keywords)
        keys == [n \in DOMAIN projects |-> sort_key(scored.heap, projects[n])]
        sorted == list_sort_reverse(projects, keys)
    IN IF scored.raised
       THEN [ret |-> <<>>, source |-> cv.projects, heap |-> scored.heap,
             keys |-> <<>>, raised |-> TRUE]
       ELSE [ret |-> sorted, source |-> cv.projects,
             heap |-> remove_scores(scored.heap, sorted),
             keys |-> keys, raised |-> FALSE]

(***************************************************************************)
(* CVGenerator._prioritize_skills                                          *)
(***************************************************************************)
RECURSIVE add_priority(_, _, _)
\* for category in priority_order: if category in skills: ordered_skills[category] = ...
add_priority(ordered_skills, priority_order, skills) ==
    IF priority_order = <<>> THEN ordered_skills
    ELSE LET category == Head(priority_order)
         IN add_priority(
                IF dict_has(skills, category)
                THEN dict_set(ordered_skills, category, dict_get(skills, category))
                ELSE ordered_skills,
                Tail(priority_order), skills)

\* The mutant of add_remaining: the loop over skills.items() left out.
add_remaining_skipped(ordered_skills, items) == ordered_skills

RECURSIVE add_remaining(_, _)
\* for category, skill_list in skills.items(): if category not in ordered_skills: ...
add_remaining(ordered_skills, items) ==
    IF items = <<>> THEN ordered_skills
    ELSE add_remaining(
            IF ~dict_has(ordered_skills, Head(items).key)
            THEN dict_set(ordered_skills, Head(items).key, Head(items).value)
            ELSE ordered_skills,
            Tail(items))

\* The mutant of skill_priority_order: an unknown job type gets the
\* data-analyst priority.
skill_priority_order_default_analyst(skills, job_type) ==
    IF list_in(lower(job_type), <<python_developer, software_developer>>)
    THEN PythonDeveloperPriority
    ELSE DataAnalystPriority

\* priority_order, as chosen from job_type
skill_priority_order(skills, job_type) ==
    IF list_in(lower(job_type), <<data_analyst, data_scientist, analytics>>)
    THEN DataAnalystPriority
    ELSE IF list_in(lower(job_type), <<python_developer, software_developer>>)
    THEN PythonDeveloperPriority
    ELSE dict_keys(skills)

_prioritize_skills(cv, job_keywords, job_type) ==
    LET skills == cv.skills
        priority_order == skill_priority_order(skills, job_type)
    IN add_remaining(add_priority(<<>>, priority_order, skills), skills)

(***************************************************************************)
(* CVGenerator._prioritize_courses                                         *)
(***************************************************************************)
RECURSIVE course_score(_, _)
\* score = 0; for keyword in job_keywords: if ...: score += 1
course_score(course, job_keywords) ==
    IF job_keywords = <<>> THEN 0
    ELSE course_score(course, SubSeq(job_keywords, 1, Len(job_keywords) - 1))
         + (IF keyword_matches(job_keywords[Len(job_keywords)], course) THEN 1 ELSE 0)

\* scored_courses, after its sort
score_courses(cv, job_keywords) ==
    LET courses == cv.courses
        scored == [n \in DOMAIN courses |->
                     [item |-> courses[n], key |-> course_score(courses[n], job_keywords)]]
    IN sort_pairs(scored)

_prioritize_courses(cv, job_keywords, job_type) ==
    LET scored_courses == score_courses(cv, job_keywords)
    IN [n \in DOMAIN scored_courses |-> scored_courses[n].item]

(***************************************************************************)
(* CVGenerator.customize_for_job: the CVData it builds from the parts.     *)
(***************************************************************************)
customized_data(cv, summary, work_experience, projects, job_keywords, job_type) ==
    [personal_info |-> cv.personal_info,
     summary |-> summary,
     work_experience |-> work_experience,
     projects |-> projects,
     education |-> cv.education,
     skills |-> _prioritize_skills(cv, job_keywords, job_type),
     courses |-> _prioritize_courses(cv, job_keywords, job_type),
     languages |-> cv.languages,
     additional |-> cv.additional]

(***************************************************************************)
(* The inputs: the profiles a CVGenerator is constructed with and the jobs *)
(* customize_for_job is called with.                                       *)
(***************************************************************************)
SeqsUpTo(S, n) == UNION {[1..m -> S] : m \in 0..n}

ProjectA ==
    [name |-> <<"D","B">>, description |-> <<"a","p","i">>,
     technologies |-> << <<"P","y">>, <<"S","Q","L">> >>,
     achievements |-> << <<"B","I">> >>]

ProjectB ==
    [name |-> <<"B","I">>, description |-> <<"s","q","l">>,
     technologies |-> << <<"J","S">> >>,
     achievements |-> << >>]

ProjectC ==
    [name |-> <<"U","I">>, description |-> << >>,
     technologies |-> << >>,
     achievements |-> << <<"P","y">> >>]

ProjectPool == {ProjectA, ProjectB, ProjectC}

ProjectLists == SeqsUpTo(ProjectPool, MaxProjects)

KeywordPool == { << >>, <<"p","y">>, <<"B","i">> }

KeywordLists == SeqsUpTo(KeywordPool, MaxKeywords)

CoursePool == { << >>, <<"P","y"," ","B","I">> }

CourseLists == SeqsUpTo(CoursePool, MaxCourses)

JobTypes ==
    { <<"D","a","t","a"," ","A","n","a","l","y","s","t">>,
      <<"d","a","t","a"," ","s","c","i","e","n","t","i","s","t">>,
      <<"A","N","A","L","Y","T","I","C","S">>,
      <<"P","y","t","h","o","n"," ","D","e","v","e","l","o","p","e","r">>,
      <<"s","o","f","t","w","a","r","e"," ","D","e","v","e","l","o","p","e","r">>,
      <<"B","a","c","k","e","n","d"," ","D","e","v","e","l","o","p","e","r">>,
      <<"B","u","s","i","n","e","s","s"," ","A","n","a","l","y","s","t">>,
      <<"b","u","s","i","n","e","s","s"," ",
        "I","n","t","e","l","l","i","g","e","n","c","e">>,
      <<"A","s","t","r","o","n","a","u","t">>,
      << >> }

\* technologies: List[str] = None
None == [is_none |-> TRUE, items |-> << >>]

SomeList(items) == [is_none |-> FALSE, items |-> items]

SalesAnalyst ==
    [title |-> "Junior Sales Analyst", company |-> "Absolvent", period |-> "2023-2025",
     responsibilities |->
        <<"Automated data flows by integrating CRM (via API) with reporting tools, reducing manual data entry time",
          "Acted as key technical resource in small team, working independently on end-to-end data processes">>,
     technologies |-> SomeList(<<"Python", "SQL", "Power BI">>)]

CivilEngineer ==
    [title |-> "Civil Engineer", company |-> "Mota Engil Central Europe",
     period |-> "2020-2022",
     responsibilities |-> <<"Preparation of 20+ Interim Payment Certificates monthly">>,
     technologies |-> None]

ExperienceLists == { <<SalesAnalyst>>, <<CivilEngineer, SalesAnalyst>> }

Skill(key, value) == [key |-> key, value |-> value]

SkillDicts ==
    { <<Skill("Programming", <<"Python (Pandas, Django, BS4, APIs)", "VBA">>),
        Skill("Data Analysis", <<"SQL (PostgreSQL, MySQL)", "Power BI">>),
        Skill("Tools & Technologies", <<"Git", "Linux", "Zapier">>),
        Skill("Other", <<"Data Visualization", "API Integration", "Web Scraping">>)>>,
      <<Skill("Other", <<"Web Scraping">>),
        Skill("Soft Skills", <<"Teamwork">>),
        Skill("Visualization", <<"Power BI">>),
        Skill("Tools", <<"Git">>),
        Skill("Data Analysis", <<"SQL">>),
        Skill("Programming", <<"Python">>)>>,
      <<Skill("Tools & Technologies", <<"Git">>),
        Skill("Databases", <<"PostgreSQL">>)>> }

DefaultPersonalInfo ==
    [name |-> "Olaf Siestrzykowski", email |-> "olaf.siestrzykowski@gmail.com",
     phone |-> "796694177", location |-> "Warsaw, PL", linkedin |-> "", github |-> "",
     portfolio |-> "Portfolio available upon request"]

DefaultSummary ==
    "Data Analyst with strong expertise in Python, Excel, SQL and Power BI. Enthusiastic about pursuing opportunities that enhance capabilities in data analysis and visualization. Dedicated to staying updated with latest technological advancements."

DefaultEducation ==
    <<[degree |-> "Bachelor of Science in Civil Engineering",
       institution |-> "Lublin University of Technology",
       period |-> "Completed", details |-> ""]>>

\* The CVData whose projects are the objects 1..n of the heap.
Profile(n, work_experience, skills, courses) ==
    [personal_info |-> DefaultPersonalInfo,
     summary |-> DefaultSummary,
     work_experience |-> work_experience,
     projects |-> [id \in 1..n |-> id],
     education |-> DefaultEducation,
     skills |-> skills,
     courses |-> courses,
     languages |-> <<"English - B2", "Polish - Native">>,
     additional |-> <<"Driving Licence", "Continuously learning new technologies">>]

\* The Project objects of a list of projects, as constructed: no attribute
\* beyond the dataclass fields.
Objects(project_list) ==
    [id \in DOMAIN project_list |->
        [name |-> project_list[id].name,
         description |-> project_list[id].description,
         technologies |-> project_list[id].technologies,
         achievements |-> project_list[id].achievements,
         attrs |-> NoAttrs]]

(***************************************************************************)
(* The calls.  thr[t] is the frame of the call of customize_for_job made   *)
(* by caller t: its arguments, its locals and, once returned, its result.  *)
(***************************************************************************)
Threads == {1, 2}

MainThread == 1

Idle ==
    [pc |-> "idle", job_keywords |-> << >>, job_type |-> << >>,
     summary |-> "", work_experience |-> << >>, projects |-> << >>,
     i |-> 0, k |-> 0, tmp |-> 0, keys |-> << >>, scored_courses |-> << >>,
     result |-> << >>, rendered |-> << >>, story |-> << >>]

DefaultProjects == <<ProjectA, ProjectB>>

DefaultExperience == <<SalesAnalyst>>

DefaultSkills == <<Skill("Programming", <<"Python">>), Skill("Other", <<"Git">>)>>

DefaultCourses == << <<"P","y"," ","B","I">> >>

Fixture(project_list, work_experience, skills, courses) ==
    [projects |-> project_list, work_experience |-> work_experience,
     skills |-> skills, courses |-> courses]

\* The profiles the model starts from.  Each part of the result is computed
\* from its own field of cv_data alone, so each family of profiles varies one
\* part of the profile and fixes the others.
Fixtures ==
    {Fixture(project_list, DefaultExperience, DefaultSkills, DefaultCourses) :
        project_list \in ProjectLists}
    \cup
    {Fixture(DefaultProjects, DefaultExperience, DefaultSkills, courses) :
        courses \in CourseLists}
    \cup
    {Fixture(DefaultProjects, work_experience, skills, DefaultCourses) :
        work_experience \in ExperienceLists, skills \in SkillDicts}

\* The data file of the CVManager: whether it exists, whether save_data
\* wrote what it holds, and the JSON document in it.
NoFile == [exists |-> FALSE, saved |-> FALSE, data |-> << >>]

\* The CVManager that is constructed on the data file: `pc` tells how far
\* __init__ got ("none": not called), `exists` and `saved` what it found,
\* `data` the dict json.load gave, `cv_data` the CVData assigned to
\* self.cv_data (none while the sequence is empty) and `heap` the Project
\* objects of that CVData.
NoManager ==
    [pc |-> "none", exists |-> FALSE, saved |-> FALSE, data |-> << >>,
     cv_data |-> << >>, heap |-> << >>]

\* A CVGenerator on the CVData of a fixture.
StartGenerator(fixture) ==
    /\ heap = Objects(fixture.projects)
    /\ cv_data = Profile(Len(fixture.projects), fixture.work_experience,
                         fixture.skills, fixture.courses)
    /\ thr = [t \in Threads |-> Idle]

Start(fixture) ==
    /\ StartGenerator(fixture)
    /\ file = NoFile
    /\ mgr = NoManager

Init == \E fixture \in Fixtures : Start(fixture)

\* customize_for_job(job_keywords, job_type), run from call to return with
\* no other call in between.
customize_for_job(t, job_keywords, job_type) ==
    /\ thr[t].pc = "idle"
    /\ LET summary == _customize_summary(cv_data, job_keywords, job_type)
           work_experience == _prioritize_experience(cv_data, job_keywords, job_type)
           prioritized == _prioritize_projects(cv_data, heap, job_keywords, job_type)
       IN /\ heap' = prioritized.heap
          /\ cv_data' = [cv_data EXCEPT !.projects = prioritized.source]
          /\ thr' = [thr EXCEPT ![t] =
                [pc |-> IF prioritized.raised THEN "failed" ELSE "done",
                 job_keywords |-> job_keywords, job_type |-> job_type,
                 summary |-> summary, work_experience |-> work_experience,
                 projects |-> prioritized.ret,
                 i |-> 0, k |-> 0, tmp |-> 0,
                 keys |-> prioritized.keys,
                 scored_courses |-> score_courses(cv_data, job_keywords),
                 result |->
                     IF prioritized.raised THEN << >>
                     ELSE <<customized_data(cv_data, summary, work_experience,
                                            prioritized.ret, job_keywords, job_type)>>,
                 rendered |-> << >>, story |-> << >>]]
    /\ UNCHANGED <<file, mgr>>

\* generate_cv_for_job returns: customized_data and the generator go out of scope.
discard_customized_data(t) ==
    /\ thr[t].pc \in {"done", "failed", "rendered"}
    /\ thr' = [thr EXCEPT ![t] = Idle]
    /\ UNCHANGED <<cv_data, heap, file, mgr>>

Next ==
    \/ \E job_keywords \in KeywordLists, job_type \in JobTypes :
          customize_for_job(MainThread, job_keywords, job_type)
    \/ discard_customized_data(MainThread)

Spec == Init /\ [][Next]_vars

(***************************************************************************)
(* customize_for_job step by step, for calls that run at the same time on  *)
(* one CVData.  A step is one access to a Project's relevance_score: the   *)
(* code between two accesses works on the locals of the call and on fields *)
(* nobody assigns, and belongs to the step before it.                      *)
(***************************************************************************)
\* The jobs of the concurrent calls.
ConcurrentJobs ==
    {[job_keywords |-> job_keywords, job_type |-> <<"A","s","t","r","o","n","a","u","t">>] :
        job_keywords \in { << <<"p","y">> >>, << <<"B","i">> >> }}

\* The profiles of the concurrent calls.
ConcurrentFixtures ==
    {Fixture(project_list, DefaultExperience, DefaultSkills, DefaultCourses) :
        project_list \in { <<ProjectA>>, <<ProjectA, ProjectB>> }}

\* The frame at the head of the first loop, about to score projects[i]
\* (line 247), or past the loop, about to sort (line 256).
enter_project(frame, i) ==
    IF i <= Len(frame.projects)
    THEN [frame EXCEPT !.pc = "zero", !.i = i, !.k = 0]
    ELSE IF frame.projects = << >>
    THEN [frame EXCEPT !.pc = "return", !.i = 0, !.k = 0]
    ELSE [frame EXCEPT !.pc = "key", !.i = 1, !.k = 0]

\* The frame at the head of the keyword loop with keyword k next (line 251):
\* on to the first keyword from k on that matches, or to the next project.
enter_keyword(h, frame, k) ==
    LET text == project_text(h[frame.projects[frame.i]])
        matching == {n \in k..Len(frame.job_keywords) :
                        keyword_matches(frame.job_keywords[n], text)}
    IN IF matching = {}
       THEN enter_project(frame, frame.i + 1)
       ELSE [frame EXCEPT !.pc = "load",
                          !.k = CHOOSE n \in matching : \A m \in matching : n <= m]

\* The frame at the head of the last loop, about to test projects[i]
\* (line 259), or past it (line 263).
enter_cleanup(frame, i) ==
    IF i <= Len(frame.projects)
    THEN [frame EXCEPT !.pc = "hasattr", !.i = i]
    ELSE [frame EXCEPT !.pc = "return", !.i = 0]

\* customize_for_job is called: lines 184-187 and 244.
call(t) ==
    /\ thr[t].pc = "idle"
    /\ \E job \in ConcurrentJobs :
          thr' = [thr EXCEPT ![t] =
              enter_project(
                  [Idle EXCEPT
                      !.job_keywords = job.job_keywords,
                      !.job_type = job.job_type,
                      !.summary = _customize_summary(cv_data, job.job_keywords, job.job_type),
                      !.work_experience =
                          _prioritize_experience(cv_data, job.job_keywords, job.job_type),
                      !.projects = cv_data.projects],
                  1)]
    /\ UNCHANGED <<cv_data, heap, file, mgr>>

\* project.relevance_score = 0
zero(t) ==
    /\ thr[t].pc = "zero"
    /\ heap' = set_score(heap, thr[t].projects[thr[t].i], 0)
    /\ thr' = [thr EXCEPT ![t] = enter_keyword(heap, thr[t], 1)]
    /\ UNCHANGED <<cv_data, file, mgr>>

\* project.relevance_score += 1: the read
load(t) ==
    /\ thr[t].pc = "load"
    /\ thr' = [thr EXCEPT ![t] =
          IF has_score(heap, thr[t].projects[thr[t].i])
          THEN [thr[t] EXCEPT !.pc = "store",
                   !.tmp = heap[thr[t].projects[thr[t].i]].attrs.relevance_score]
          ELSE [thr[t] EXCEPT !.pc = "failed"]]
    /\ UNCHANGED <<cv_data, heap, file, mgr>>

\* project.relevance_score += 1: the write
store(t) ==
    /\ thr[t].pc = "store"
    /\ heap' = set_score(heap, thr[t].projects[thr[t].i], thr[t].tmp + 1)
    /\ thr' = [thr EXCEPT ![t] = enter_keyword(heap, [thr[t] EXCEPT !.tmp = 0], thr[t].k + 1)]
    /\ UNCHANGED <<cv_data, file, mgr>>

\* projects.sort: the key of projects[i]; after the last key, the sort
key(t) ==
    /\ thr[t].pc = "key"
    /\ LET keys == Append(thr[t].keys, sort_key(heap, thr[t].projects[thr[t].i]))
       IN thr' = [thr EXCEPT ![t] =
             IF thr[t].i < Len(thr[t].projects)
             THEN [thr[t] EXCEPT !.keys = keys, !.i = @ + 1]
             ELSE enter_cleanup(
                    [thr[t] EXCEPT !.keys = keys,
                                   !.projects = list_sort_reverse(thr[t].projects, keys)],
                    1)]
    /\ UNCHANGED <<cv_data, heap, file, mgr>>

\* if hasattr(project, 'relevance_score')
hasattr(t) ==
    /\ thr[t].pc = "hasattr"
    /\ thr' = [thr EXCEPT ![t] =
          IF has_score(heap, thr[t].projects[thr[t].i])
          THEN [thr[t] EXCEPT !.pc = "delattr"]
          ELSE enter_cleanup(thr[t], thr[t].i + 1)]
    /\ UNCHANGED <<cv_data, heap, file, mgr>>

\* delattr(project, 'relevance_score'): AttributeError when it is gone
delattr(t) ==
    /\ thr[t].pc = "delattr"
    /\ IF has_score(heap, thr[t].projects[thr[t].i])
       THEN /\ heap' = del_score(heap, thr[t].projects[thr[t].i])
            /\ thr' = [thr EXCEPT ![t] = enter_cleanup(thr[t], thr[t].i + 1)]
       ELSE /\ heap' = heap
            /\ thr' = [thr EXCEPT ![t].pc = "failed"]
    /\ UNCHANGED <<cv_data, file, mgr>>

\* return projects; lines 189-195
return(t) ==
    /\ thr[t].pc = "return"
    /\ thr' = [thr EXCEPT ![t] =
          [thr[t] EXCEPT
              !.pc = "done",
              !.scored_courses = score_courses(cv_data, thr[t].job_keywords),
              !.result = <<customized_data(cv_data, thr[t].summary, thr[t].work_experience,
                                           thr[t].projects, thr[t].job_keywords,
                                           thr[t].job_type)>>]]
    /\ UNCHANGED <<cv_data, heap, file, mgr>>

InitConcurrent == \E fixture \in ConcurrentFixtures : Start(fixture)

NextConcurrent ==
    \E t \in Threads :
        \/ call(t)
        \/ zero(t)
        \/ load(t)
        \/ store(t)
        \/ key(t)
        \/ hasattr(t)
        \/ delattr(t)
        \/ return(t)

SpecConcurrent == InitConcurrent /\ [][NextConcurrent]_vars

(***************************************************************************)
(* What the claims speak of, stated apart from the operators above.        *)
(***************************************************************************)
\* Two characters that are the same letter, whatever their case.
SameLetter(a, b) ==
    \/ a = b
    \/ \E n \in DOMAIN UpperLetters : {a, b} = {UpperLetters[n], LowerLetters[n]}

\* Two texts equal up to case.
SameText(a, b) == Len(a) = Len(b) /\ \A n \in DOMAIN a : SameLetter(a[n], b[n])

\* The keyword occurs in the text as a substring, case ignored.
Occurs(keyword, text) ==
    \E start \in 0..Len(text) :
        /\ start + Len(keyword) <= Len(text)
        /\ \A n \in DOMAIN keyword : SameLetter(keyword[n], text[start + n])

\* The number of entries of the keyword list that occur in the text.
MatchingEntries(text, job_keywords) ==
    Cardinality({n \in DOMAIN job_keywords : Occurs(job_keywords[n], text)})

\* The number of distinct keywords of the list that occur in the text.
DistinctMatchingKeywords(text, job_keywords) ==
    Cardinality({keyword \in {job_keywords[n] : n \in DOMAIN job_keywords} :
                    Occurs(keyword, text)})

RECURSIVE SpaceSeparated(_)
SpaceSeparated(words) ==
    IF words = << >> THEN << >>
    ELSE IF Len(words) = 1 THEN words[1]
    ELSE SpaceSeparated(SubSeq(words, 1, Len(words) - 1)) \o <<" ">> \o words[Len(words)]

\* A project's name, description and technology tags in one text.
NameDescriptionTags(project) ==
    SpaceSeparated(<<project.name, project.description,
                     SpaceSeparated(project.technologies)>>)

\* The relevance score of project `id` for the job of call t.
ProjectScore(t, id) == MatchingEntries(NameDescriptionTags(heap[id]), thr[t].job_keywords)

Occurrences(seq, x) == Cardinality({n \in DOMAIN seq : seq[n] = x})

IsPermutation(a, b) ==
    /\ Len(a) = Len(b)
    /\ \A n \in DOMAIN a : Occurrences(a, a[n]) = Occurrences(b, a[n])

PositionIn(seq, x) == CHOOSE n \in DOMAIN seq : seq[n] = x

TitleIn(job_type, names) == \E name \in names : SameText(job_type, name)

AnalystTitles == {data_analyst, data_scientist, analytics}

DeveloperTitles == {python_developer, software_developer, backend_developer}

BusinessTitles == {business_analyst, business_intelligence}

Returned(t) == thr[t].pc = "done"

Result(t) == thr[t].result[1]

\* The categories of `source` in the order a priority list asks for: those
\* the list names, in its order, then the others in their source order.
InPriorityOrder(priority, source) ==
    LET Present(category) == list_in(category, source)
        Unnamed(category) == ~list_in(category, priority)
    IN SelectSeq(priority, Present) \o SelectSeq(source, Unnamed)

\* The objects as they are when no call is under way.
WithoutScores == [id \in DOMAIN heap |-> [heap[id] EXCEPT !.attrs = NoAttrs]]

(***************************************************************************)
(* The claims                                                              *)
(***************************************************************************)
\* C1: a call of customize_for_job that returns leaves the source profile as
\* it was: cv_data with all its lists and the skills mapping, and every
\* Project object with the same fields and no attribute gained or lost.
C1_SourceProfileUnchanged ==
    [][\A t \in Threads :
          (thr[t].pc = "idle" /\ thr'[t].pc = "done") =>
              (cv_data' = cv_data /\ heap' = heap)]_vars

\* A call has returned a project list in another order than the source's.
C1_Witness ==
    \E t \in Threads :
        /\ Returned(t)
        /\ thr[t].job_keywords # << >>
        /\ Result(t).projects # cv_data.projects
        /\ \E n \in DOMAIN thr[t].keys : thr[t].keys[n] > 0

\* C2: two calls running at the same time on one profile each return the
\* project order they return when run alone, and neither fails.
C2_ConcurrentCallsReturnAsAlone ==
    \A t \in Threads :
        /\ thr[t].pc # "failed"
        /\ Returned(t) =>
              Result(t).projects =
                  _prioritize_projects(cv_data, WithoutScores, thr[t].job_keywords,
                                       thr[t].job_type).ret

\* C3 (amended): the score of a project's text and of a course title is the
\* number of entries of job_keywords that occur in it as a substring, case
\* ignored: an entry counts once however often it occurs in the text, an
\* entry repeated in job_keywords counts each time, and no entry gives 0.
C3_ScoreCountsMatchingEntries ==
    \A t \in Threads :
        Returned(t) =>
            /\ Len(thr[t].keys) = Len(cv_data.projects)
            /\ \A n \in DOMAIN thr[t].keys :
                  thr[t].keys[n] =
                      MatchingEntries(NameDescriptionTags(heap[cv_data.projects[n]]),
                                      thr[t].job_keywords)
            /\ Len(thr[t].scored_courses) = Len(cv_data.courses)
            /\ \A n \in DOMAIN thr[t].scored_courses :
                  thr[t].scored_courses[n].key =
                      MatchingEntries(thr[t].scored_courses[n].item, thr[t].job_keywords)

\* A call has scored a text against a keyword list that repeats a keyword
\* occurring in it.
C3_Witness ==
    \E t \in Threads :
        /\ Returned(t)
        /\ Len(thr[t].job_keywords) = 2
        /\ thr[t].job_keywords[1] = thr[t].job_keywords[2]
        /\ thr[t].job_keywords[1] # << >>
        /\ \E n \in DOMAIN thr[t].keys : thr[t].keys[n] = 2
        /\ \E n \in DOMAIN thr[t].scored_courses : thr[t].scored_courses[n].key = 2

\* C3 as claimed: the score is the number of distinct keywords that occur in
\* the text.
C3_ScoreCountsDistinctKeywords ==
    \A t \in Threads :
        Returned(t) =>
            /\ \A n \in DOMAIN thr[t].keys :
                  thr[t].keys[n] =
                      DistinctMatchingKeywords(
                          NameDescriptionTags(heap[cv_data.projects[n]]),
                          thr[t].job_keywords)
            /\ \A n \in DOMAIN thr[t].scored_courses :
                  thr[t].scored_courses[n].key =
                      DistinctMatchingKeywords(thr[t].scored_courses[n].item,
                                               thr[t].job_keywords)

\* C4 (amended): the score of the empty text is the number of entries of
\* job_keywords that are the empty string, so it is 0 for every keyword list
\* without an empty entry; a course with the empty title scores just that.
C4_EmptyTextScoresEmptyKeywords ==
    \A t \in Threads :
        Returned(t) =>
            \A n \in DOMAIN thr[t].scored_courses :
                thr[t].scored_courses[n].item = << >> =>
                    thr[t].scored_courses[n].key =
                        Cardinality({m \in DOMAIN thr[t].job_keywords :
                                        thr[t].job_keywords[m] = << >>})

\* A course with the empty title has been scored against a list holding an
\* empty and a non-empty keyword.
C4_Witness ==
    \E t \in Threads :
        /\ Returned(t)
        /\ \E m \in DOMAIN thr[t].job_keywords : thr[t].job_keywords[m] = << >>
        /\ \E m \in DOMAIN thr[t].job_keywords : thr[t].job_keywords[m] # << >>
        /\ \E n \in DOMAIN thr[t].scored_courses :
              /\ thr[t].scored_courses[n].item = << >>
              /\ thr[t].scored_courses[n].key = 1

\* C4 as claimed: the empty text scores 0 against every non-empty keyword list.
C4_EmptyTextScoresZero ==
    \A t \in Threads :
        (Returned(t) /\ thr[t].job_keywords # << >>) =>
            \A n \in DOMAIN thr[t].scored_courses :
                thr[t].scored_courses[n].item = << >> => thr[t].scored_courses[n].key = 0

\* C5: the projects returned are a permutation of the source's projects in
\* order of non-increasing score, the score taken over name, description and
\* technology tags and not over the achievements.
C5_ProjectsPermutedByScore ==
    \A t \in Threads :
        Returned(t) =>
            /\ IsPermutation(Result(t).projects, cv_data.projects)
            /\ \A n, m \in DOMAIN Result(t).projects :
                  n < m => ProjectScore(t, Result(t).projects[n])
                            >= ProjectScore(t, Result(t).projects[m])

\* A call has moved a project with a higher score in front of one that a
\* keyword matches in its achievements only.
C5_Witness ==
    \E t \in Threads :
        /\ Returned(t)
        /\ Len(Result(t).projects) = 2
        /\ Result(t).projects # cv_data.projects
        /\ ProjectScore(t, Result(t).projects[1]) > ProjectScore(t, Result(t).projects[2])
        /\ \E m \in DOMAIN thr[t].job_keywords :
              \E a \in DOMAIN heap[Result(t).projects[2]].achievements :
                  Occurs(thr[t].job_keywords[m], heap[Result(t).projects[2]].achievements[a])

\* C6: two projects of equal score come out in the order they have in the
\* source profile.
C6_EqualScoresKeepSourceOrder ==
    \A t \in Threads :
        Returned(t) =>
            \A n, m \in DOMAIN Result(t).projects :
                (n < m /\ ProjectScore(t, Result(t).projects[n])
                            = ProjectScore(t, Result(t).projects[m]))
                => PositionIn(cv_data.projects, Result(t).projects[n])
                     < PositionIn(cv_data.projects, Result(t).projects[m])

\* A call has returned two projects of the same score above 0.
C6_Witness ==
    \E t \in Threads :
        /\ Returned(t)
        /\ Len(Result(t).projects) = 2
        /\ ProjectScore(t, Result(t).projects[1]) > 0
        /\ ProjectScore(t, Result(t).projects[1]) = ProjectScore(t, Result(t).projects[2])

\* C7: the responsibilities follow the categories of the summary selection:
\* a title of the analyst, developer or business category replaces every
\* entry's responsibilities by the category's list, any other title keeps the
\* source's.  (The code has no list for the business category; the claim asks
\* at least that the source's list is replaced.)
C7_ResponsibilitiesFollowSummaryCategories ==
    \A t \in Threads :
        Returned(t) =>
            /\ Len(Result(t).work_experience) = Len(cv_data.work_experience)
            /\ \A n \in DOMAIN Result(t).work_experience :
                  LET got == Result(t).work_experience[n].responsibilities
                      source == cv_data.work_experience[n].responsibilities
                  IN IF TitleIn(thr[t].job_type, AnalystTitles)
                     THEN got = DataAnalystResponsibilities
                     ELSE IF TitleIn(thr[t].job_type, DeveloperTitles)
                     THEN got = PythonDeveloperResponsibilities
                     ELSE IF TitleIn(thr[t].job_type, BusinessTitles)
                     THEN got # source
                     ELSE got = source

\* C8: the skill categories follow the priority list of the title's category
\* of the summary selection, the categories it does not name behind them in
\* their source order.
C8_SkillOrderFollowsSummaryCategories ==
    \A t \in Threads :
        Returned(t) =>
            /\ TitleIn(thr[t].job_type, AnalystTitles) =>
                  dict_keys(Result(t).skills)
                      = InPriorityOrder(DataAnalystPriority, dict_keys(cv_data.skills))
            /\ TitleIn(thr[t].job_type, DeveloperTitles) =>
                  dict_keys(Result(t).skills)
                      = InPriorityOrder(PythonDeveloperPriority, dict_keys(cv_data.skills))

\* C9: for every job title the call returns, with the analyst summary for an
\* analyst title, the developer summary for a developer title, the business
\* summary for a business title and the source's summary for any other.
C9_SummaryChosenByTitle ==
    \A t \in Threads :
        /\ thr[t].pc # "failed"
        /\ Returned(t) =>
              Result(t).summary =
                  IF TitleIn(thr[t].job_type, AnalystTitles) THEN DataAnalystSummary
                  ELSE IF TitleIn(thr[t].job_type, DeveloperTitles)
                  THEN PythonDeveloperSummary
                  ELSE IF TitleIn(thr[t].job_type, BusinessTitles)
                  THEN BusinessAnalystSummary
                  ELSE cv_data.summary

\* A call with a title written in capitals has returned the developer summary.
C9_Witness ==
    \E t \in Threads :
        /\ Returned(t)
        /\ thr[t].job_type # lower(thr[t].job_type)
        /\ Result(t).summary = PythonDeveloperSummary

\* C10: a title of no category makes the call return the source's summary,
\* the source's responsibilities for every work experience in source order
\* and the skill categories in the source's order.
C10_UnmatchedTitleKeepsSource ==
    \A t \in Threads :
        /\ thr[t].pc # "failed"
        /\ (Returned(t)
            /\ ~TitleIn(thr[t].job_type,
                        AnalystTitles \cup DeveloperTitles \cup BusinessTitles)) =>
              /\ Result(t).summary = cv_data.summary
              /\ Result(t).work_experience = cv_data.work_experience
              /\ dict_keys(Result(t).skills) = dict_keys(cv_data.skills)

\* A call with the empty title has returned for a profile of two work
\* experiences whose skill categories are not in the analyst priority order.
C10_Witness ==
    \E t \in Threads :
        /\ Returned(t)
        /\ thr[t].job_type = << >>
        /\ Len(cv_data.work_experience) = 2
        /\ dict_keys(cv_data.skills)
             # InPriorityOrder(DataAnalystPriority, dict_keys(cv_data.skills))

\* C11: the skills mapping a call returns has the category names of the
\* source mapping, each once, none added and none missing, and every
\* category maps to the skill list it has in the source, in the same order.
C11_SkillsKeepCategoriesAndLists ==
    \A t \in Threads :
        Returned(t) =>
            LET returned == Result(t).skills
                source == cv_data.skills
            IN /\ \A m, n \in DOMAIN returned :
                     returned[m].key = returned[n].key => m = n
               /\ {returned[n].key : n \in DOMAIN returned}
                    = {source[n].key : n \in DOMAIN source}
               /\ \A m \in DOMAIN returned, n \in DOMAIN source :
                     returned[m].key = source[n].key =>
                        returned[m].value = source[n].value

\* A call for a data analyst has returned the categories in another order
\* than the source's, for a source with categories the priority list does
\* not name.
C11_Witness ==
    \E t \in Threads :
        /\ Returned(t)
        /\ TitleIn(thr[t].job_type, AnalystTitles)
        /\ dict_keys(Result(t).skills) # dict_keys(cv_data.skills)
        /\ \E n \in DOMAIN cv_data.skills :
              ~list_in(cv_data.skills[n].key, DataAnalystPriority)

\* The score of a course title for the call of t: the entries of its keyword
\* list that occur in the title.
CourseScore(t, course) == MatchingEntries(course, thr[t].job_keywords)

\* C12: the course list a call returns holds the source's courses, each as
\* often as the source does, in an order in which the score of the titles
\* never rises, and the courses of one score stand in their source order.
C12_CoursesPermutedByScore ==
    \A t \in Threads :
        Returned(t) =>
            LET returned == Result(t).courses
                source == cv_data.courses
                Scores == {CourseScore(t, source[n]) : n \in DOMAIN source}
            IN /\ IsPermutation(returned, source)
               /\ \A m, n \in DOMAIN returned :
                     m < n => CourseScore(t, returned[m]) >= CourseScore(t, returned[n])
               /\ \A s \in Scores :
                     LET Scored(course) == CourseScore(t, course) = s
                     IN SelectSeq(returned, Scored) = SelectSeq(source, Scored)

\* A call has returned the courses in another order than the source's: the
\* second course of the source scores higher than the first.
C12_Witness ==
    \E t \in Threads :
        /\ Returned(t)
        /\ Len(cv_data.courses) = 2
        /\ CourseScore(t, cv_data.courses[1]) < CourseScore(t, cv_data.courses[2])
        /\ Result(t).courses = <<cv_data.courses[2], cv_data.courses[1]>>

(***************************************************************************)
(* The lists and mappings of the CVData customize_for_job returns, and     *)
(* which of them are the very objects the source CVData holds.  A          *)
(* container is named by the part of the CVData it is and, within a list,  *)
(* its position.                                                           *)
(***************************************************************************)
Container(part, n) == [part |-> part, n |-> n]

\* Every list and mapping reachable from a CVData.  A work experience whose
\* technologies is None has no technologies list; the projects list is
\* listed when it has a Project to append once more.
containers(data) ==
    {Container(part, 0) :
        part \in {"work_experience", "education", "skills", "courses",
                  "languages", "additional"}}
    \cup (IF data.projects # << >> THEN {Container("projects", 0)} ELSE {})
    \cup {Container("responsibilities", n) : n \in DOMAIN data.work_experience}
    \cup {Container("technologies", n) :
            n \in {m \in DOMAIN data.work_experience :
                      ~data.work_experience[m].technologies.is_none}}
    \cup {Container("project", n) : n \in DOMAIN data.projects}
    \cup {Container("skill_list", n) : n \in DOMAIN data.skills}

\* Whether a container of the returned CVData is the object the source
\* holds in the same place, by the expression that fills it:
\*   work_experience   experiences = []                          new list
\*   responsibilities  a list display, or exp.responsibilities   source's in the else branch
\*   technologies      exp.technologies                          source's
\*   projects          self.cv_data.projects.copy()              new list
\*   project           the elements of the copy                  source's
\*   education         self.cv_data.education                    source's
\*   skills            ordered_skills = {}                       new dict
\*   skill_list        skills[category], skill_list              source's
\*   courses           [course for course, score in ...]         new list
\*   languages         self.cv_data.languages                    source's
\*   additional        self.cv_data.additional                   source's
is_source_object(job_type, container) ==
    CASE container.part \in {"work_experience", "projects", "skills", "courses"} -> FALSE
      [] container.part = "responsibilities" ->
            /\ ~list_in(lower(job_type), <<data_analyst, data_scientist, analytics>>)
            /\ ~list_in(lower(job_type), <<python_developer, software_developer>>)
      [] OTHER -> TRUE

\* The container of the source that a shared container of the returned
\* CVData is: the same place, and for a skill list the source's entry of
\* the same category.
source_container(cv, data, container) ==
    IF container.part = "skill_list"
    THEN Container("skill_list",
                   CHOOSE n \in DOMAIN cv.skills :
                       cv.skills[n].key = data.skills[container.n].key)
    ELSE container

\* list.append(...) on a container of a CVData, and for the skills mapping
\* the assignment of a new key.  A Project is an object of the heap: see
\* append_achievement.
append(data, container) ==
    CASE container.part = "work_experience" ->
            [data EXCEPT !.work_experience = Append(@, CivilEngineer)]
      [] container.part = "responsibilities" ->
            [data EXCEPT !.work_experience[container.n].responsibilities = Append(@, "x")]
      [] container.part = "technologies" ->
            [data EXCEPT !.work_experience[container.n].technologies.items = Append(@, "x")]
      [] container.part = "projects" ->
            [data EXCEPT !.projects = Append(@, @[1])]
      [] container.part = "education" ->
            [data EXCEPT !.education = Append(@, DefaultEducation[1])]
      [] container.part = "skills" ->
            [data EXCEPT !.skills = dict_set(@, "x", << >>)]
      [] container.part = "skill_list" ->
            [data EXCEPT !.skills[container.n].value = Append(@, "x")]
      [] container.part = "courses" ->
            [data EXCEPT !.courses = Append(@, <<"x">>)]
      [] container.part = "languages" ->
            [data EXCEPT !.languages = Append(@, "x")]
      [] container.part = "additional" ->
            [data EXCEPT !.additional = Append(@, "x")]
      [] OTHER -> data

\* project.achievements.append(...) on the Project object id
append_achievement(h, id) ==
    [h EXCEPT ![id].achievements = Append(@, <<"x">>)]

\* The jobs of the calls whose result is then modified: a title of each
\* branch of _prioritize_experience.
ModifiedJobs ==
    {[job_keywords |-> << <<"p","y">> >>, job_type |-> job_type] :
        job_type \in {<<"A","s","t","r","o","n","a","u","t">>, data_analyst,
                      software_developer}}

\* The caller that holds the returned CVData appends to one of its
\* containers in place.  What is appended to an object the source holds is
\* appended to the source.
append_to_customized_data(t) ==
    /\ thr[t].pc = "done"
    /\ \E container \in containers(Result(t)) :
          LET shared == is_source_object(thr[t].job_type, container)
          IN /\ thr' = [thr EXCEPT ![t].pc = "modified",
                                   ![t].result = <<append(Result(t), container)>>]
             /\ heap' = IF container.part = "project"
                        THEN append_achievement(heap, Result(t).projects[container.n])
                        ELSE heap
             /\ cv_data' = IF shared
                           THEN append(cv_data,
                                       source_container(cv_data, Result(t), container))
                           ELSE cv_data
    /\ UNCHANGED <<file, mgr>>

NextModified ==
    \/ \E job \in ModifiedJobs :
          customize_for_job(MainThread, job.job_keywords, job.job_type)
    \/ append_to_customized_data(MainThread)

SpecModified == Init /\ [][NextModified]_vars

\* C13: every list and mapping reachable from the returned CVData is an
\* object of its own, so that an append to any of them in place leaves the
\* source (cv_data and its Project objects) as it was.
C13_OutputModificationLeavesSource ==
    [][\A t \in Threads :
          (thr[t].pc = "done" /\ thr'[t].pc = "modified") =>
              (cv_data' = cv_data /\ heap' = heap)]_vars

(***************************************************************************)
(* Two calls of customize_for_job in sequence on one CVGenerator, with the *)
(* same arguments.  The frame of the first call is kept, with its result,  *)
(* while the second runs.                                                  *)
(***************************************************************************)
FirstCall == MainThread

SecondCall == CHOOSE t \in Threads : t # FirstCall

\* The titles of the calls that are made twice: one that takes the
\* branches of a known job type and one that takes the else branches.
RepeatedJobTypes == {data_analyst, <<"A","s","t","r","o","n","a","u","t">>}

\* customize_for_job(job_keywords, job_type) once more, after the first
\* call has returned.
customize_for_job_again ==
    /\ thr[FirstCall].pc = "done"
    /\ customize_for_job(SecondCall, thr[FirstCall].job_keywords, thr[FirstCall].job_type)

NextTwice ==
    \/ \E job_keywords \in KeywordLists, job_type \in RepeatedJobTypes :
          customize_for_job(FirstCall, job_keywords, job_type)
    \/ customize_for_job_again

SpecTwice == Init /\ [][NextTwice]_vars

\* A CVData with every Project written out by its fields, for comparison
\* by value (dataclass equality compares the fields).
Deep(data, h) ==
    [data EXCEPT !.projects =
        [n \in DOMAIN data.projects |->
            [name |-> h[data.projects[n]].name,
             description |-> h[data.projects[n]].description,
             technologies |-> h[data.projects[n]].technologies,
             achievements |-> h[data.projects[n]].achievements]]]

\* C14: a second call of customize_for_job with the profile, title and
\* keywords of a first call that returned returns too, and the two CVData
\* are equal by value.
C14_SecondCallReturnsEqual ==
    (/\ thr[FirstCall].pc = "done"
     /\ thr[SecondCall].pc # "idle"
     /\ thr[SecondCall].job_keywords = thr[FirstCall].job_keywords
     /\ thr[SecondCall].job_type = thr[FirstCall].job_type) =>
        /\ Returned(SecondCall)
        /\ Deep(Result(SecondCall), heap) = Deep(Result(FirstCall), heap)

\* Both calls have returned, with a project order that is not the source's.
C14_Witness ==
    /\ Returned(FirstCall)
    /\ Returned(SecondCall)
    /\ Len(cv_data.projects) = 2
    /\ Result(SecondCall).projects = <<cv_data.projects[2], cv_data.projects[1]>>

\* C15: once a call of customize_for_job has returned, no Project carries a
\* relevance_score attribute: none of the CVData returned and none of the
\* source, whatever the project list and the keyword list, the empty ones
\* included.
C15_NoScoreAfterReturn ==
    \A t \in Threads :
        Returned(t) =>
            /\ \A n \in DOMAIN Result(t).projects :
                  ~has_score(heap, Result(t).projects[n])
            /\ \A n \in DOMAIN cv_data.projects :
                  ~has_score(heap, cv_data.projects[n])

\* A call has returned for two projects that both matched a keyword, so
\* that both carried a score above 0 while the call ran.
C15_Witness ==
    \E t \in Threads :
        /\ Returned(t)
        /\ Len(Result(t).projects) = 2
        /\ \A n \in DOMAIN Result(t).projects :
              ProjectScore(t, Result(t).projects[n]) > 0

(***************************************************************************)
(* CVManager: the CVData it constructs when there is no data file.         *)
(***************************************************************************)
DefaultWorkExperience ==
    <<[title |-> "Junior Sales Analyst", company |-> "Absolvent",
       period |-> "2023-2025",
       responsibilities |->
         <<"Automated data flows by integrating CRM (via API) with reporting tools, reducing manual data entry time",
           "Acted as key technical resource in small team, working independently on end-to-end data processes",
           "Collaborated with managers to define metrics and track performance, delivering business-focused reports">>,
       technologies |->
         SomeList(<<"Python", "SQL", "Power BI", "APIs", "Google Sheets",
                    "Looker Studio", "Zapier", "Jira", "">>)],
      [title |-> "Civil Engineer", company |-> "Mota Engil Central Europe",
       period |-> "2020-2022",
       responsibilities |->
         <<"Preparation of 20+ Interim Payment Certificates monthly",
           "I improved data driven decision making by harnessing advanced Excel functions, enabling accurate problem analysis and driving strategic insights",
           "Comprehensive monthly analysis of Production and Costs, resulting in improved efficiency and cost savings",
           "Technological Projects, Weekly and Monthly Reports">>,
       technologies |->
         SomeList(<<"Excel", "Power Query", "AutoCAD">>)]>>

DefaultProjectList ==
    <<[name |->
         <<"D", "a", "n", "c", "e", " ", "S", "c", "h", "o", "o", "l", " ",
           "W", "e", "b", "s", "i", "t", "e">>,
       description |->
         <<"F", "u", "l", "l", "-", "s", "t", "a", "c", "k", " ", "w", "e",
           "b", " ", "d", "e", "v", "e", "l", "o", "p", "m", "e", "n", "t",
           " ", "p", "r", "o", "j", "e", "c", "t", " ", "w", "i", "t", "h",
           " ", "m", "o", "d", "e", "r", "n", " ", "f", "e", "a", "t", "u",
           "r", "e", "s">>,
       technologies |->
         << <<"P", "y", "t", "h", "o", "n">>,
            <<"D", "j", "a", "n", "g", "o">>,
            <<"H", "T", "M", "L", "/", "C", "S", "S">>,
            <<"J", "a", "v", "a", "S", "c", "r", "i", "p", "t">> >>,
       achievements |->
         << <<"C", "o", "n", "f", "i", "g", "u", "r", "e", "d", " ", "S",
              "S", "L", " ", "C", "e", "r", "t", "i", "f", "i", "c", "a",
              "t", "e", " ", "a", "n", "d", " ", "d", "o", "m", "a", "i",
              "n", " ", "c", "o", "n", "n", "e", "c", "t", "i", "o", "n",
              " ", "(", "D", "N", "S", ")">>,
            <<"I", "m", "p", "l", "e", "m", "e", "n", "t", "e", "d", " ",
              "G", "o", "o", "g", "l", "e", " ", "M", "a", "p", "s", " ",
              "v", "i", "e", "w", " ", "a", "n", "d", " ", "b", "l", "o",
              "g", " ", "f", "e", "a", "t", "u", "r", "e", "s">> >>],
      [name |->
         <<"U", "n", "v", "e", "i", "l", "i", "n", "g", " ", "t", "h", "e",
           " ", "S", "h", "i", "n", "o", "b", "i", " ", "S", "e", "c", "r",
           "e", "t", "s", " ", "(", "N", "a", "r", "u", "t", "o", " ", "W",
           "i", "k", "i", " ", "A", "n", "a", "l", "y", "s", "i", "s", ")">>,
       description |->
         <<"D", "a", "t", "a", " ", "a", "n", "a", "l", "y", "s", "i", "s",
           " ", "a", "n", "d", " ", "w", "e", "b", " ", "s", "c", "r", "a",
           "p", "i", "n", "g", " ", "p", "r", "o", "j", "e", "c", "t">>,
       technologies |->
         << <<"P", "y", "t", "h", "o", "n">>,
            <<"B", "e", "a", "u", "t", "i", "f", "u", "l", "S", "o", "u",
              "p">>,
            <<"P", "a", "n", "d", "a", "s">>,
            <<"D", "a", "t", "a", " ", "V", "i", "s", "u", "a", "l", "i",
              "z", "a", "t", "i", "o", "n">> >>,
       achievements |->
         << <<"S", "c", "r", "a", "p", "e", "d", " ", "v", "a", "l", "u",
              "a", "b", "l", "e", " ", "i", "n", "s", "i", "g", "h", "t",
              "s", " ", "f", "r", "o", "m", " ", "m", "u", "l", "t", "i",
              "p", "l", "e", " ", "w", "i", "k", "i", " ", "p", "a", "g",
              "e", "s">>,
            <<"E", "x", "t", "r", "a", "c", "t", "e", "d", ",", " ", "t",
              "r", "a", "n", "s", "f", "o", "r", "m", "e", "d", " ", "d",
              "a", "t", "a", " ", "a", "n", "d", " ", "v", "i", "s", "u",
              "a", "l", "i", "z", "e", "d", " ", "i", "t", " ", "e", "n",
              "s", "u", "r", "i", "n", "g", " ", "c", "l", "e", "a", "r",
              " ", "u", "n", "d", "e", "r", "s", "t", "a", "n", "d", "i",
              "n", "g">>,
            <<"D", "e", "l", "i", "v", "e", "r", "e", "d", " ", "a", "c",
              "t", "i", "o", "n", "a", "b", "l", "e", " ", "i", "n", "s",
              "i", "g", "h", "t", "s", " ", "t", "h", "r", "o", "u", "g",
              "h", " ", "d", "a", "t", "a", " ", "a", "n", "a", "l", "y",
              "s", "i", "s">> >>]>>

DefaultSkillDict ==
    <<Skill("Programming",
            <<"Python (Pandas, Django, BS4, APIs)", "VBA">>),
      Skill("Data Analysis",
            <<"Excel (Power Query, Power Pivot)",
              "SQL (PostgreSQL, MySQL)", "Power BI", "Looker Studio">>),
      Skill("Tools & Technologies",
            <<"Git", "Linux", "Zapier">>),
      Skill("Other",
            <<"Data Visualization", "API Integration", "Web Scraping">>)>>

DefaultCourseList ==
    << <<"M", "i", "c", "r", "o", "s", "o", "f", "t", " ", "E", "x", "c",
         "e", "l", " ", "-", " ", "P", "o", "w", "e", "r", "Q", "u", "e",
         "r", "y", " ", "|", " ", "V", "B", "A">>,
       <<"T", "h", "e", " ", "C", "o", "m", "p", "l", "e", "t", "e", " ",
         "S", "Q", "L", " ", "B", "o", "o", "t", "c", "a", "m", "p", " ",
         "2", "0", "2", "2", ":", " ", "G", "o", " ", "f", "r", "o", "m",
         " ", "Z", "e", "r", "o", " ", "t", "o", " ", "H", "e", "r", "o">>,
       <<"D", "a", "t", "a", " ", "M", "a", "n", "i", "p", "u", "l", "a",
         "t", "i", "o", "n", " ", "i", "n", " ", "P", "y", "t", "h", "o",
         "n", ":", " ", "M", "a", "s", "t", "e", "r", " ", "P", "y", "t",
         "h", "o", "n", ",", " ", "N", "u", "m", "p", "y", " ", "&", " ",
         "P", "a", "n", "d", "a", "s">>,
       <<"P", "o", "w", "e", "r", " ", "B", "I", ":", " ", "B", "a", "s",
         "i", "c", "s", " ", "|", " ", "D", "e", "s", "k", "t", "o", "p",
         " ", "|", " ", "A", "d", "v", "a", "n", "c", "e", "d", " ", "|",
         " ", "D", "a", "t", "a", " ", "M", "o", "d", "e", "l", "i", "n",
         "g">> >>

\* CVManager._create_default_data: the CVData and its Project objects
_create_default_data ==
    [cv_data |->
        [personal_info |-> DefaultPersonalInfo,
         summary |-> DefaultSummary,
         work_experience |-> DefaultWorkExperience,
         projects |-> [id \in DOMAIN DefaultProjectList |-> id],
         education |-> DefaultEducation,
         skills |-> DefaultSkillDict,
         courses |-> DefaultCourseList,
         languages |-> <<"English - B2", "Polish - Native">>,
         additional |-> <<"Driving Licence", "Continuously learning new technologies">>],
     heap |-> Objects(DefaultProjectList)]

(***************************************************************************)
(* dataclasses.asdict and json.dump / json.load.  A dict is a sequence of  *)
(* [key, value] entries, as before; asdict lists the fields of a dataclass *)
(* in their order of declaration and leaves out what is not a field.       *)
(***************************************************************************)
Entry(name, value) == [key |-> name, value |-> value]

asdict_personal_info(personal_info) ==
    <<Entry("name", personal_info.name),
      Entry("email", personal_info.email),
      Entry("phone", personal_info.phone),
      Entry("location", personal_info.location),
      Entry("linkedin", personal_info.linkedin),
      Entry("github", personal_info.github),
      Entry("portfolio", personal_info.portfolio)>>

asdict_work_experience(exp) ==
    <<Entry("title", exp.title),
      Entry("company", exp.company),
      Entry("period", exp.period),
      Entry("responsibilities", exp.responsibilities),
      Entry("technologies", exp.technologies)>>

\* The Project object: its fields, not the attributes added at run time.
asdict_project(object) ==
    <<Entry("name", object.name),
      Entry("description", object.description),
      Entry("technologies", object.technologies),
      Entry("achievements", object.achievements)>>

asdict_education(edu) ==
    <<Entry("degree", edu.degree),
      Entry("institution", edu.institution),
      Entry("period", edu.period),
      Entry("details", edu.details)>>

\* asdict(self.cv_data)
asdict(cv, h) ==
    <<Entry("personal_info", asdict_personal_info(cv.personal_info)),
      Entry("summary", cv.summary),
      Entry("work_experience",
            [n \in DOMAIN cv.work_experience |->
                asdict_work_experience(cv.work_experience[n])]),
      Entry("projects",
            [n \in DOMAIN cv.projects |-> asdict_project(h[cv.projects[n]])]),
      Entry("education",
            [n \in DOMAIN cv.education |-> asdict_education(cv.education[n])]),
      Entry("skills", cv.skills),
      Entry("courses", cv.courses),
      Entry("languages", cv.languages),
      Entry("additional", cv.additional)>>

\* The mutant of json_optional_list: None is written as an empty array.
json_optional_list_none_as_empty(value) ==
    [null |-> FALSE, array |-> value.items]

\* json.dump of an Optional[List[str]]: null for None, an array for a list
json_optional_list(value) ==
    IF value.is_none THEN [null |-> TRUE, array |-> << >>]
    ELSE [null |-> FALSE, array |-> value.items]

\* json.load of null or an array: None, or the list
python_optional_list(value) ==
    IF value.null THEN None ELSE SomeList(value.array)

\* json.dump(data, f, indent=2, ensure_ascii=False).  The technologies of a
\* work experience is the one place of a CVData where a value that is no
\* str, list or dict can stand; the other values are written as they are,
\* objects in key order and arrays in list order.
json_dump(data) ==
    [n \in DOMAIN data |->
        IF data[n].key = "work_experience"
        THEN Entry("work_experience",
                   [m \in DOMAIN data[n].value |->
                       LET exp == data[n].value[m]
                       IN [k \in DOMAIN exp |->
                              IF exp[k].key = "technologies"
                              THEN Entry("technologies",
                                         json_optional_list(exp[k].value))
                              ELSE exp[k]]])
        ELSE data[n]]

\* json.load(f): the document as Python values, wherever it has the keys.
json_load(document) ==
    [n \in DOMAIN document |->
        IF document[n].key = "work_experience"
        THEN Entry("work_experience",
                   [m \in DOMAIN document[n].value |->
                       LET exp == document[n].value[m]
                       IN [k \in DOMAIN exp |->
                              IF exp[k].key = "technologies"
                              THEN Entry("technologies",
                                         python_optional_list(exp[k].value))
                              ELSE exp[k]]])
        ELSE document[n]]

(***************************************************************************)
(* The dataclass constructors called with **kwargs, and                    *)
(* CVManager._dict_to_cv_data.                                             *)
(***************************************************************************)
\* Whether dataclass(**kwargs) raises TypeError: a field without a default
\* is not among the keys, or a key is no field.
init_raises(kwargs, required, optional) ==
    \/ \E name \in required : ~dict_has(kwargs, name)
    \/ \E n \in DOMAIN kwargs : kwargs[n].key \notin (required \cup optional)

\* The value of a field: the keyword argument, or the default.
field(kwargs, name, default) ==
    IF dict_has(kwargs, name) THEN dict_get(kwargs, name) ELSE default

PersonalInfo(kwargs) ==
    [name |-> dict_get(kwargs, "name"),
     email |-> dict_get(kwargs, "email"),
     phone |-> dict_get(kwargs, "phone"),
     location |-> dict_get(kwargs, "location"),
     linkedin |-> field(kwargs, "linkedin", ""),
     github |-> field(kwargs, "github", ""),
     portfolio |-> field(kwargs, "portfolio", "")]

WorkExperience(kwargs) ==
    [title |-> dict_get(kwargs, "title"),
     company |-> dict_get(kwargs, "company"),
     period |-> dict_get(kwargs, "period"),
     responsibilities |-> dict_get(kwargs, "responsibilities"),
     technologies |-> field(kwargs, "technologies", None)]

Project(kwargs) ==
    [name |-> dict_get(kwargs, "name"),
     description |-> dict_get(kwargs, "description"),
     technologies |-> dict_get(kwargs, "technologies"),
     achievements |-> dict_get(kwargs, "achievements")]

Education(kwargs) ==
    [degree |-> dict_get(kwargs, "degree"),
     institution |-> dict_get(kwargs, "institution"),
     period |-> dict_get(kwargs, "period"),
     details |-> field(kwargs, "details", "")]

\* The keys _dict_to_cv_data subscripts data with.
CVDataKeys ==
    {"personal_info", "summary", "work_experience", "projects", "education",
     "skills", "courses", "languages", "additional"}

\* The mutant of subscript: data.get(name, []) in place of data[name].
subscript_get(data, name) ==
    [raised |-> FALSE,
     value |-> IF dict_has(data, name) THEN dict_get(data, name) ELSE << >>]

\* data[name]: the value, or KeyError
subscript(data, name) ==
    IF dict_has(data, name)
    THEN [raised |-> FALSE, value |-> dict_get(data, name)]
    ELSE [raised |-> TRUE, value |-> << >>]

\* CVManager._dict_to_cv_data: the CVData with its new Project objects, or
\* `raised` when a subscript raises KeyError or a constructor TypeError.
_dict_to_cv_data(data) ==
    LET item == [name \in CVDataKeys |-> subscript(data, name)]
        value(name) == item[name].value
        KeyError == \E name \in CVDataKeys : item[name].raised
        TypeError ==
            \/ init_raises(value("personal_info"),
                           {"name", "email", "phone", "location"},
                           {"linkedin", "github", "portfolio"})
            \/ \E n \in DOMAIN value("work_experience") :
                  init_raises(value("work_experience")[n],
                              {"title", "company", "period", "responsibilities"},
                              {"technologies"})
            \/ \E n \in DOMAIN value("projects") :
                  init_raises(value("projects")[n],
                              {"name", "description", "technologies", "achievements"},
                              {})
            \/ \E n \in DOMAIN value("education") :
                  init_raises(value("education")[n],
                              {"degree", "institution", "period"}, {"details"})
    IN IF KeyError \/ TypeError
       THEN [raised |-> TRUE, cv_data |-> << >>, heap |-> << >>]
       ELSE [raised |-> FALSE,
             cv_data |->
                <<[personal_info |-> PersonalInfo(value("personal_info")),
                   summary |-> value("summary"),
                   work_experience |->
                       [n \in DOMAIN value("work_experience") |->
                           WorkExperience(value("work_experience")[n])],
                   projects |-> [id \in DOMAIN value("projects") |-> id],
                   education |->
                       [n \in DOMAIN value("education") |->
                           Education(value("education")[n])],
                   skills |-> value("skills"),
                   courses |-> value("courses"),
                   languages |-> value("languages"),
                   additional |-> value("additional")]>>,
             heap |->
                Objects([id \in DOMAIN value("projects") |->
                            Project(value("projects")[id])])]

(***************************************************************************)
(* The CVManager on its data file.  cv_data and heap are the CVData of the *)
(* CVManager that saves (the one its CVGenerator customizes); mgr is the   *)
(* CVManager that is then constructed on the same file.                    *)
(***************************************************************************)
\* json.dump(asdict(self.cv_data), f, ...)
save_data ==
    /\ thr[MainThread].pc \in {"idle", "done"}
    /\ file' = [exists |-> TRUE, saved |-> TRUE,
                data |-> json_dump(asdict(cv_data, heap))]
    /\ UNCHANGED <<cv_data, heap, thr, mgr>>

\* CVManager.__init__: self.cv_data = self._load_or_create_data().  An
\* exception leaves __init__ before the assignment.
_load_or_create_data ==
    /\ mgr.pc = "none"
    /\ mgr' =
          IF file.exists
          THEN LET data == json_load(file.data)
                   made == _dict_to_cv_data(data)
               IN [pc |-> IF made.raised THEN "failed" ELSE "loaded",
                   exists |-> TRUE, saved |-> file.saved, data |-> data,
                   cv_data |-> made.cv_data, heap |-> made.heap]
          ELSE [pc |-> "loaded", exists |-> FALSE, saved |-> FALSE,
                data |-> << >>,
                cv_data |-> <<_create_default_data.cv_data>>,
                heap |-> _create_default_data.heap]
    /\ UNCHANGED <<cv_data, heap, thr, file>>

\* The constructed CVManager, or the exception, goes out of scope.
discard_manager ==
    /\ mgr.pc # "none"
    /\ mgr' = NoManager
    /\ UNCHANGED <<cv_data, heap, thr, file>>

\* A document without one of its keys: the data file is edited by hand.
without(document, name) ==
    LET Others(entry) == entry.key # name
    IN SelectSeq(document, Others)

\* A document written by hand that leaves out every key a dataclass has a
\* default for.
HandWrittenDocument ==
    <<Entry("personal_info",
            <<Entry("name", "N"), Entry("email", "E"), Entry("phone", "P"),
              Entry("location", "L")>>),
      Entry("summary", "S"),
      Entry("work_experience",
            << <<Entry("title", "T"), Entry("company", "C"),
                 Entry("period", "P"), Entry("responsibilities", <<"R">>)>> >>),
      Entry("projects", << >>),
      Entry("education",
            << <<Entry("degree", "D"), Entry("institution", "I"),
                 Entry("period", "P")>> >>),
      Entry("skills", << >>),
      Entry("courses", << >>),
      Entry("languages", << >>),
      Entry("additional", << >>)>>

\* The data file at the start: none, a hand-written one, or the document of
\* the CVData with one key taken out.
InitStore ==
    \E fixture \in Fixtures :
        /\ StartGenerator(fixture)
        /\ mgr = NoManager
        /\ \/ file = NoFile
           \/ file = [exists |-> TRUE, saved |-> FALSE, data |-> HandWrittenDocument]
           \/ \E name \in CVDataKeys :
                 file = [exists |-> TRUE, saved |-> FALSE,
                         data |-> without(json_dump(asdict(cv_data, heap)), name)]

NextStore ==
    \/ \E job \in ModifiedJobs :
          customize_for_job(MainThread, job.job_keywords, job.job_type)
    \/ discard_customized_data(MainThread)
    \/ save_data
    \/ _load_or_create_data
    \/ discard_manager

SpecStore == InitStore /\ [][NextStore]_vars

\* The keys a persisted CVData has to have.
PersistedKeys ==
    {"personal_info", "summary", "work_experience", "projects", "education",
     "skills", "courses", "languages", "additional"}

\* The keys of PersistedKeys that the document read by the CVManager lacks.
AbsentKeys ==
    {name \in PersistedKeys : \A n \in DOMAIN mgr.data : mgr.data[n].key # name}

\* C16: a CVManager constructed on a data file that lacks any of the nine
\* keys ends in the exception and has no CVData assigned, not even in part;
\* a CVManager constructed where no data file exists has the CVData of
\* _create_default_data.
C16_MissingKeyFailsNoFileGivesDefault ==
    mgr.pc # "none" =>
        /\ (mgr.exists /\ AbsentKeys # {}) =>
              (mgr.pc = "failed" /\ Len(mgr.cv_data) = 0)
        /\ ~mgr.exists =>
              /\ mgr.pc = "loaded"
              /\ Len(mgr.cv_data) = 1
              /\ Deep(mgr.cv_data[1], mgr.heap)
                   = Deep(_create_default_data.cv_data, _create_default_data.heap)
              /\ mgr.cv_data[1].personal_info.name = "Olaf Siestrzykowski"
              /\ Len(mgr.cv_data[1].projects) = 2
              /\ Len(mgr.cv_data[1].courses) = 4

\* The construction has failed on a data file that has every key but
\* 'additional', the last one _dict_to_cv_data reads.
C16_Witness ==
    /\ mgr.pc = "failed"
    /\ mgr.exists
    /\ AbsentKeys = {"additional"}

\* C18: a CVManager constructed on the file that save_data wrote has a
\* CVData equal by value to the one saved, with every list in its order
\* and the skill categories in theirs; a technologies of None comes back
\* as None.
C18_SaveLoadRoundTrip ==
    (mgr.pc # "none" /\ mgr.exists /\ mgr.saved) =>
        /\ mgr.pc = "loaded"
        /\ Len(mgr.cv_data) = 1
        /\ Deep(mgr.cv_data[1], mgr.heap) = Deep(cv_data, heap)
        /\ dict_keys(mgr.cv_data[1].skills) = dict_keys(cv_data.skills)
        /\ \A n \in DOMAIN cv_data.work_experience :
              mgr.cv_data[1].work_experience[n].technologies.is_none
                = cv_data.work_experience[n].technologies.is_none

\* A CVManager has been constructed on the file saved for a CVData that has
\* a work experience without technologies and two projects, after a call
\* of customize_for_job on that CVData has returned.
C18_Witness ==
    /\ mgr.pc = "loaded"
    /\ mgr.saved
    /\ Returned(MainThread)
    /\ Len(cv_data.projects) = 2
    /\ \E n \in DOMAIN cv_data.work_experience :
          cv_data.work_experience[n].technologies.is_none

(***************************************************************************)
(* CVGenerator.generate_pdf: the story it hands to doc.build.  A flowable  *)
(* is a record; lengths are in hundredths of an inch.                      *)
(***************************************************************************)
Paragraph(text, style) == [flowable |-> "Paragraph", text |-> text, style |-> style]

Spacer(width, height) == [flowable |-> "Spacer", width |-> width, height |-> height]

\* self._create_green_line()
_create_green_line ==
    [flowable |-> "Drawing", width |-> 750, height |-> 4, strokeColor |-> "green"]

RECURSIVE str_join(_, _)
\* separator.join(items)
str_join(separator, items) ==
    IF items = << >> THEN ""
    ELSE IF Len(items) = 1 THEN items[1]
    ELSE items[1] \o separator \o str_join(separator, Tail(items))

RECURSIVE flatten(_)
\* The flowables appended over the iterations of a for loop.
flatten(parts) ==
    IF parts = << >> THEN << >> ELSE Head(parts) \o flatten(Tail(parts))

\* The green line, the spacer and the header that open a section.
section_header(name) ==
    <<_create_green_line, Spacer(1, 5), Paragraph(name, "SectionHeader")>>

\* Header - Name, and the contact info
header_story(data) ==
    <<Paragraph(data.personal_info.name, "CVHeader"),
      Spacer(1, 10),
      Paragraph(data.personal_info.email, "ContactInfo"),
      Paragraph(data.personal_info.phone, "ContactInfo"),
      Paragraph(data.personal_info.location, "ContactInfo")>>
    \o (IF data.personal_info.portfolio # ""
        THEN <<Paragraph(data.personal_info.portfolio, "ContactInfo")>>
        ELSE << >>)
    \o <<Spacer(1, 20)>>

summary_story(data) ==
    section_header("Professional Summary")
    \o <<Paragraph(data.summary, "Summary"), Spacer(1, 10)>>

work_experience_story(data) ==
    section_header("Work Experience")
    \o flatten([n \in DOMAIN data.work_experience |->
          LET exp == data.work_experience[n]
          IN <<Paragraph(exp.title, "JobTitle"), Paragraph(exp.period, "Period")>>
             \o [m \in DOMAIN exp.responsibilities |->
                    Paragraph(exp.responsibilities[m], "BulletPoint")]
             \o <<Spacer(1, 10)>>])

projects_story(data, h) ==
    section_header("Projects")
    \o flatten([n \in DOMAIN data.projects |->
          LET project == h[data.projects[n]]
          IN <<Paragraph(project.name, "JobTitle"),
               Paragraph(project.description, "BulletPoint")>>
             \o [m \in DOMAIN project.achievements |->
                    Paragraph(project.achievements[m], "BulletPoint")]
             \o <<Spacer(1, 10)>>])

skills_story(data) ==
    section_header("Skills")
    \o flatten([n \in DOMAIN data.skills |->
          <<Paragraph(data.skills[n].key, "JobTitle"),
            Paragraph(str_join(", ", data.skills[n].value), "Skills"),
            Spacer(1, 5)>>])

education_story(data) ==
    section_header("Education")
    \o flatten([n \in DOMAIN data.education |->
          LET edu == data.education[n]
          IN <<Paragraph(edu.degree, "JobTitle"), Paragraph(edu.institution, "Company")>>
             \o (IF edu.details # "" THEN <<Paragraph(edu.details, "BulletPoint")>>
                 ELSE << >>)
             \o <<Spacer(1, 5)>>])

\* The mutant of courses_story: without `if customized_data.courses:`.
courses_story_unconditional(data) ==
    section_header("Courses")
    \o [n \in DOMAIN data.courses |->
           Paragraph(data.courses[n], "BulletPoint")]

\* if customized_data.courses: ...
courses_story(data) ==
    IF data.courses # << >>
    THEN section_header("Courses")
         \o [n \in DOMAIN data.courses |->
                Paragraph(data.courses[n], "BulletPoint")]
    ELSE << >>

\* additional_sections, as collected
additional_sections(data) ==
    (IF data.languages # << >>
     THEN <<[section_name |-> "Languages", items |-> data.languages]>>
     ELSE << >>)
    \o (IF data.additional # << >>
        THEN <<[section_name |-> "Additional", items |-> data.additional]>>
        ELSE << >>)

additional_story(data) ==
    LET sections == additional_sections(data)
    IN flatten([n \in DOMAIN sections |->
          section_header(sections[n].section_name)
          \o <<Paragraph(str_join(" | ", sections[n].items), "Skills")>>])

\* story, as handed to doc.build
story_of(data, h) ==
    header_story(data)
    \o summary_story(data)
    \o work_experience_story(data)
    \o projects_story(data, h)
    \o skills_story(data)
    \o education_story(data)
    \o courses_story(data)
    \o additional_story(data)

\* generator.generate_pdf(output_path, customized_data), and
\* generate_pdf(output_path) with customized_data None: self.cv_data is
\* rendered.
generate_pdf(t) ==
    /\ thr[t].pc = "done"
    /\ \E data \in {Result(t), cv_data} :
          thr' = [thr EXCEPT ![t].pc = "rendered",
                             ![t].rendered = <<data>>,
                             ![t].story = story_of(data, heap)]
    /\ UNCHANGED <<cv_data, heap, file, mgr>>

\* The profiles that are rendered: those of the fixtures, with and without
\* languages, additional notes and a portfolio.
LanguageLists == {<< >>, <<"English - B2", "Polish - Native">>}

AdditionalLists == {<< >>, <<"Driving Licence">>}

Portfolios == {"", "Portfolio available upon request"}

InitPdf ==
    \E fixture \in Fixtures, languages \in LanguageLists,
       additional \in AdditionalLists, portfolio \in Portfolios :
        /\ heap = Objects(fixture.projects)
        /\ cv_data =
              [Profile(Len(fixture.projects), fixture.work_experience,
                       fixture.skills, fixture.courses)
                  EXCEPT !.languages = languages,
                         !.additional = additional,
                         !.personal_info.portfolio = portfolio]
        /\ thr = [t \in Threads |-> Idle]
        /\ file = NoFile
        /\ mgr = NoManager

NextPdf ==
    \/ \E job \in ModifiedJobs :
          customize_for_job(MainThread, job.job_keywords, job.job_type)
    \/ generate_pdf(MainThread)
    \/ discard_customized_data(MainThread)

SpecPdf == InitPdf /\ [][NextPdf]_vars

\* The texts of the section headers of a story, in story order.
SectionHeaders(story) ==
    LET IsHeader(flowable) ==
            flowable.flowable = "Paragraph" /\ flowable.style = "SectionHeader"
        headers == SelectSeq(story, IsHeader)
    IN [n \in DOMAIN headers |-> headers[n].text]

Rendered(t) == thr[t].pc = "rendered"

\* C17 as amended: the story of generate_pdf has the headers Professional
\* Summary, Work Experience, Projects, Skills and Education, then Courses,
\* Languages and Additional for those of the three lists that are not
\* empty, each header once and in this order.
C17_SectionsOfNonEmptyListsInOrder ==
    \A t \in Threads :
        Rendered(t) =>
            LET data == thr[t].rendered[1]
                Section(name, items) == IF items # << >> THEN <<name>> ELSE << >>
            IN SectionHeaders(thr[t].story)
                 = <<"Professional Summary", "Work Experience", "Projects",
                     "Skills", "Education">>
                   \o Section("Courses", data.courses)
                   \o Section("Languages", data.languages)
                   \o Section("Additional", data.additional)

\* A CVData without courses and without additional notes, with languages,
\* has been rendered.
C17_Witness ==
    \E t \in Threads :
        /\ Rendered(t)
        /\ thr[t].rendered[1].courses = << >>
        /\ thr[t].rendered[1].languages # << >>
        /\ thr[t].rendered[1].additional = << >>

\* C17 as claimed: the story of generate_pdf has all eight section headers,
\* each once and in the fixed order, whatever the CVData holds.
C17_EightSectionsInOrder ==
    \A t \in Threads :
        Rendered(t) =>
            SectionHeaders(thr[t].story)
              = <<"Professional Summary", "Work Experience", "Projects",
                  "Skills", "Education", "Courses", "Languages", "Additional">>

====
